---- MODULE Spec2Model ----
(***************************************************************************)
(* Market flow indicators service                                          *)
(* (backend/services/market_flow_indicators.py).                           *)
(*                                                                         *)
(* get_flow_indicators_for_prompt resolves the period, then runs one       *)
(* calculator per requested indicator name.  Every calculator fetches the  *)
(* rows of one table for the symbol in the lookback window, folds them     *)
(* into buckets keyed by floor_timestamp, and derives a summary.           *)
(*                                                                         *)
(* Representation.                                                         *)
(*  - Text that the code upper-cases (symbol, indicator names) is a        *)
(*    sequence of one-character strings, so that str.upper() is computed   *)
(*    character by character.  Period labels are plain strings.            *)
(*  - A nullable value is <<>> (None) or <<v>>.                            *)
(*  - Decimal columns hold integers here; float(x) of such a value is x.   *)
(*  - A float quotient a / b is the exact fraction <<n, d>> in lowest      *)
(*    terms with d > 0; 1.0 is <<1, 1>> and 0.0 is <<0, 1>>.  Rounding of   *)
(*    binary floating point is not modelled.                               *)
(*  - A dict is a function; the empty dict is <<>>.                        *)
(*  - A raised exception is the field "raised" of a calculator's outcome.  *)
(***************************************************************************)
EXTENDS Integers, Sequences, FiniteSets, TLC

VARIABLES
    db,               \* the store: the three tables and the sources whose query fails
    pc,               \* per request context: "off", "idle", "loop", "done", "raised"
    args,             \* per context: symbol, period, indicators, current_time_ms as passed
    interval_ms,      \* per context: local interval_ms (line 96)
    current_time_ms,  \* per context: local current_time_ms (lines 98-100)
    idx,              \* per context: position of the for loop (line 104)
    results,          \* per context: local dict results (line 102)
    ret,              \* per context: the returned mapping, <<>> wrapped as <<m>> once returned
    queries,          \* per context: number of db.query calls issued so far
    calc,             \* per context: locals of the calculator run last (records, buckets, values)
    ft                \* floor_timestamp applied on its own: [ts_ms, interval_ms, out]

vars == <<db, pc, args, interval_ms, current_time_ms, idx, results, ret, queries, calc, ft>>

-----------------------------------------------------------------------------
(* Bounds *)

NumCalls == 2       \* request contexts
MaxReq == 2         \* length of the requested indicator list (dispatcher specification)
ConcMaxReq == 1     \* length of the requested list (concurrent specification)
MaxRows == 6        \* rows of the populated table (calculator specification)
MaxTs == 12         \* |ts_ms| of floor_timestamp applied on its own
MaxInterval == 5    \* interval_ms of floor_timestamp applied on its own

Calls == 1..NumCalls

-----------------------------------------------------------------------------
(* Python values *)

None == <<>>
Some(v) == <<v>>

\* x or 0  /  x or Decimal("0")  for a nullable number
OrZero(x) == IF x = None THEN 0 ELSE x[1]

Min(a, b) == IF a <= b THEN a ELSE b
Abs(a) == IF a < 0 THEN -a ELSE a

RECURSIVE Gcd(_, _)
Gcd(a, b) == IF b = 0 THEN a ELSE Gcd(b, a % b)

\* the fraction n / d (d # 0) in lowest terms with a positive denominator
Q(n, d) ==
    LET g == Gcd(Abs(n), Abs(d))
        s == IF d < 0 THEN -1 ELSE 1
    IN  <<(s * n) \div g, (s * d) \div g>>

ZeroDivisionError == <<0, 0>>

\* a / b on floats: raises ZeroDivisionError when b is 0
Div(a, b) == IF b = 0 THEN ZeroDivisionError ELSE Q(a, b)

One == <<1, 1>>
Zero == <<0, 1>>

\* d[k] = v on a dict
DictSet(d, k, v) == [x \in (DOMAIN d) \cup {k} |-> IF x = k THEN v ELSE d[x]]

RECURSIVE SeqSum(_)
SeqSum(s) == IF s = <<>> THEN 0 ELSE s[1] + SeqSum(Tail(s))

SetMin(S) == CHOOSE x \in S : \A y \in S : x <= y

\* sorted(d.keys())
RECURSIVE sorted(_)
sorted(S) == IF S = {} THEN <<>> ELSE <<SetMin(S)>> \o sorted(S \ {SetMin(S)})

\* str.upper(), character by character
LowerCase == <<"a","b","c","d","e","f","g","h","i","j","k","l","m",
               "n","o","p","q","r","s","t","u","v","w","x","y","z">>
UpperCase == <<"A","B","C","D","E","F","G","H","I","J","K","L","M",
               "N","O","P","Q","R","S","T","U","V","W","X","Y","Z">>

UpperChar(c) ==
    IF \E i \in 1..Len(LowerCase) : LowerCase[i] = c
    THEN UpperCase[CHOOSE i \in 1..Len(LowerCase) : LowerCase[i] = c]
    ELSE c

RECURSIVE upper(_)
upper(s) == IF s = <<>> THEN <<>> ELSE <<UpperChar(s[1])>> \o upper(Tail(s))

-----------------------------------------------------------------------------
(* Module constants and helpers *)

\* faulty variant: the 2h entry written with the minutes factor missing
TIMEFRAME_MS_2h ==
    [p \in {"1m", "3m", "5m", "15m", "30m", "1h", "2h", "4h"} |->
        CASE p = "1m"  -> 60 * 1000
          [] p = "3m"  -> 3 * 60 * 1000
          [] p = "5m"  -> 5 * 60 * 1000
          [] p = "15m" -> 15 * 60 * 1000
          [] p = "30m" -> 30 * 60 * 1000
          [] p = "1h"  -> 60 * 60 * 1000
          [] p = "2h"  -> 2 * 60 * 1000
          [] p = "4h"  -> 4 * 60 * 60 * 1000]

TIMEFRAME_MS ==
    [p \in {"1m", "3m", "5m", "15m", "30m", "1h", "2h", "4h"} |->
        CASE p = "1m"  -> 60 * 1000
          [] p = "3m"  -> 3 * 60 * 1000
          [] p = "5m"  -> 5 * 60 * 1000
          [] p = "15m" -> 15 * 60 * 1000
          [] p = "30m" -> 30 * 60 * 1000
          [] p = "1h"  -> 60 * 60 * 1000
          [] p = "2h"  -> 2 * 60 * 60 * 1000
          [] p = "4h"  -> 4 * 60 * 60 * 1000]

\* faulty variant: integer division that truncates toward zero
floor_timestamp_trunc(ts_ms, interval) ==
    IF ts_ms >= 0 THEN (ts_ms \div interval) * interval
    ELSE -(((-ts_ms) \div interval) * interval)

\* Python's // rounds toward minus infinity, as \div does
floor_timestamp(ts_ms, interval) == (ts_ms \div interval) * interval

decimal_to_float(val) == IF val = None THEN None ELSE Some(val[1])

\* faulty variant: the slice taken from the front, xs[:5]
First5(xs) == IF Len(xs) >= 5 THEN SubSeq(xs, 1, 5) ELSE xs

\* xs[-5:] if len(xs) >= 5 else xs
Last5(xs) == IF Len(xs) >= 5 THEN SubSeq(xs, Len(xs) - 4, Len(xs)) ELSE xs

-----------------------------------------------------------------------------
(* The store *)

Sources == {"trades", "metrics", "orderbook"}

\* faulty variant: the lower end of the window is exclusive
FilterExclusive(rows, symbol, start_time, end_time) ==
    {r \in rows : /\ r.symbol = symbol
                  /\ r.timestamp > start_time
                  /\ r.timestamp <= end_time}

\* rows of a table with the given symbol and timestamp in [start_time, end_time]
Filter(rows, symbol, start_time, end_time) ==
    {r \in rows : /\ r.symbol = symbol
                  /\ r.timestamp >= start_time
                  /\ r.timestamp <= end_time}

\* .order_by(timestamp).all(); a table holds one row per (symbol, timestamp)
RECURSIVE OrderBy(_)
OrderBy(rows) ==
    IF rows = {} THEN <<>>
    ELSE LET r == CHOOSE x \in rows : \A y \in rows : x.timestamp <= y.timestamp
         IN  <<r>> \o OrderBy(rows \ {r})

\* db.query(...).filter(...).order_by(...).all() of a calculator
Query(store, source, symbol, interval, now) ==
    OrderBy(Filter(store[source], upper(symbol), now - interval * 10, now))

-----------------------------------------------------------------------------
(* Calculators.  A calculator's outcome records what it returns (ret, None *)
(* or a result dict), whether it raised instead, and its locals: the rows  *)
(* fetched, the bucket dict and the per-bucket value list it derived.      *)

Outcome(raised, r, records, buckets, values) ==
    [raised |-> raised, ret |-> IF raised THEN None ELSE r,
     records |-> records, buckets |-> buckets, values |-> values]

\* the query itself raised (the source is unavailable)
QueryError == Outcome(TRUE, None, <<>>, <<>>, <<>>)

\* a float division inside the calculator raised
Raises(values) == \E i \in 1..Len(values) : values[i] = ZeroDivisionError

\* faulty variant: each row overwrites its bucket (= written for +=)
RECURSIVE TradeBucketsOverwrite(_, _, _)
TradeBucketsOverwrite(records, interval, n) ==
    IF n = 0 THEN <<>>
    ELSE LET buckets == TradeBucketsOverwrite(records, interval, n - 1)
             r == records[n]
             bucket_ts == floor_timestamp(r.timestamp, interval)
         IN  DictSet(buckets, bucket_ts,
                     [buy  |-> OrZero(r.taker_buy_notional),
                      sell |-> OrZero(r.taker_sell_notional)])

\* buckets of summed taker notionals: the fold over records[1..n]
RECURSIVE TradeBuckets(_, _, _)
TradeBuckets(records, interval, n) ==
    IF n = 0 THEN <<>>
    ELSE LET buckets == TradeBuckets(records, interval, n - 1)
             r == records[n]
             bucket_ts == floor_timestamp(r.timestamp, interval)
             old == IF bucket_ts \in DOMAIN buckets
                    THEN buckets[bucket_ts]
                    ELSE [buy |-> 0, sell |-> 0]
         IN  DictSet(buckets, bucket_ts,
                     [buy  |-> old.buy + OrZero(r.taker_buy_notional),
                      sell |-> old.sell + OrZero(r.taker_sell_notional)])

\* what a last-value calculator stores for a row
BucketValue(kind, r) ==
    CASE kind = "oi"        -> r.open_interest
      [] kind = "funding"   -> r.funding_rate
      [] kind = "depth"     -> [bid |-> r.bid_depth_5, ask |-> r.ask_depth_5, spread |-> r.spread]
      [] kind = "imbalance" -> [bid |-> r.bid_depth_5, ask |-> r.ask_depth_5]

\* faulty variant: the bucket keyed by the raw timestamp (flooring left out)
RECURSIVE LastBucketsRaw(_, _, _, _)
LastBucketsRaw(kind, records, interval, n) ==
    IF n = 0 THEN <<>>
    ELSE LET buckets == LastBucketsRaw(kind, records, interval, n - 1)
             r == records[n]
         IN  DictSet(buckets, r.timestamp, BucketValue(kind, r))

\* faulty variant: the first row of a bucket is kept, later rows do not overwrite
RECURSIVE LastBucketsFirst(_, _, _, _)
LastBucketsFirst(kind, records, interval, n) ==
    IF n = 0 THEN <<>>
    ELSE LET buckets == LastBucketsFirst(kind, records, interval, n - 1)
             r == records[n]
             bucket_ts == floor_timestamp(r.timestamp, interval)
         IN  IF bucket_ts \in DOMAIN buckets THEN buckets
             ELSE DictSet(buckets, bucket_ts, BucketValue(kind, r))

\* buckets of last values: each row overwrites its bucket, rows in query order
RECURSIVE LastBuckets(_, _, _, _)
LastBuckets(kind, records, interval, n) ==
    IF n = 0 THEN <<>>
    ELSE LET buckets == LastBuckets(kind, records, interval, n - 1)
             r == records[n]
             bucket_ts == floor_timestamp(r.timestamp, interval)
         IN  DictSet(buckets, bucket_ts, BucketValue(kind, r))

CvdDelta(bucket) == bucket.buy - bucket.sell

\* faulty variant: the guard written sell >= 0
TakerRatioGe(bucket) == IF bucket.sell >= 0 THEN Div(bucket.buy, bucket.sell) ELSE One

TakerRatio(bucket) == IF bucket.sell > 0 THEN Div(bucket.buy, bucket.sell) ELSE One

DepthRatio(bucket) ==
    LET bid == OrZero(decimal_to_float(bucket.bid))
        ask == OrZero(decimal_to_float(bucket.ask))
    IN  IF ask > 0 THEN Div(bid, ask) ELSE One

\* faulty variant: the quotient taken without the total > 0 guard
ImbalanceUnguarded(bucket) ==
    LET bid == OrZero(decimal_to_float(bucket.bid))
        ask == OrZero(decimal_to_float(bucket.ask))
    IN  Div(bid - ask, bid + ask)

Imbalance(bucket) ==
    LET bid == OrZero(decimal_to_float(bucket.bid))
        ask == OrZero(decimal_to_float(bucket.ask))
        total == bid + ask
    IN  IF total > 0 THEN Div(bid - ask, total) ELSE Zero

\* the value a calculator derives from one bucket
Derive(kind, bucket) ==
    CASE kind = "cvd"       -> CvdDelta(bucket)
      [] kind = "taker"     -> TakerRatio(bucket)
      [] kind = "oi"        -> decimal_to_float(bucket)
      [] kind = "funding"   -> bucket
      [] kind = "depth"     -> DepthRatio(bucket)
      [] kind = "imbalance" -> Imbalance(bucket)

\* [derive(buckets[ts]) for ts in sorted_times]
MapBuckets(kind, buckets, sorted_times) ==
    <<>> \o [i \in 1..Len(sorted_times) |-> Derive(kind, buckets[sorted_times[i]])]

\* [v for v in xs if v is not None], unwrapped
RECURSIVE NotNone(_)
NotNone(xs) ==
    IF xs = <<>> THEN <<>>
    ELSE (IF xs[1] = None THEN <<>> ELSE <<xs[1][1]>>) \o NotNone(Tail(xs))

get_cvd_data(store, symbol, period, interval, now) ==
    IF "trades" \in store.down THEN QueryError
    ELSE
    LET records == Query(store, "trades", symbol, interval, now)
        buckets == TradeBuckets(records, interval, Len(records))
        sorted_times == sorted(DOMAIN buckets)
        period_deltas == MapBuckets("cvd", buckets, sorted_times)
    IN  IF records = <<>> THEN Outcome(FALSE, None, records, <<>>, <<>>)
        ELSE IF period_deltas = <<>> THEN Outcome(FALSE, None, records, buckets, <<>>)
        ELSE Outcome(FALSE,
                     Some([current    |-> period_deltas[Len(period_deltas)],
                           last_5     |-> Last5(period_deltas),
                           cumulative |-> SeqSum(period_deltas),
                           period     |-> period]),
                     records, buckets, period_deltas)

get_taker_data(store, symbol, period, interval, now) ==
    IF "trades" \in store.down THEN QueryError
    ELSE
    LET records == Query(store, "trades", symbol, interval, now)
        buckets == TradeBuckets(records, interval, Len(records))
        sorted_times == sorted(DOMAIN buckets)
        ratios == MapBuckets("taker", buckets, sorted_times)
        current_bucket == buckets[sorted_times[Len(sorted_times)]]
        current_ratio == TakerRatio(current_bucket)
    IN  IF records = <<>> THEN Outcome(FALSE, None, records, <<>>, <<>>)
        ELSE IF ratios = <<>> THEN Outcome(FALSE, None, records, buckets, <<>>)
        ELSE Outcome(Raises(ratios),
                     Some([buy          |-> current_bucket.buy,
                           sell         |-> current_bucket.sell,
                           ratio        |-> current_ratio,
                           ratio_last_5 |-> Last5(ratios),
                           period       |-> period]),
                     records, buckets, ratios)

get_oi_data(store, symbol, period, interval, now) ==
    IF "metrics" \in store.down THEN QueryError
    ELSE
    LET records == Query(store, "metrics", symbol, interval, now)
        buckets == LastBuckets("oi", records, interval, Len(records))
        sorted_times == sorted(DOMAIN buckets)
        oi_values == NotNone(MapBuckets("oi", buckets, sorted_times))
    IN  IF records = <<>> THEN Outcome(FALSE, None, records, <<>>, <<>>)
        ELSE IF sorted_times = <<>> THEN Outcome(FALSE, None, records, buckets, <<>>)
        ELSE IF oi_values = <<>> THEN Outcome(FALSE, None, records, buckets, oi_values)
        ELSE Outcome(FALSE,
                     Some([current |-> oi_values[Len(oi_values)],
                           last_5  |-> Last5(oi_values),
                           period  |-> period]),
                     records, buckets, oi_values)

\* truthiness of an Optional[float]: neither None nor 0.0
Truthy(v) == v # None /\ v[1] # 0

\* q * k on floats
Times(q, k) == IF q = ZeroDivisionError THEN q ELSE Q(q[1] * k, q[2])

\* the loop for i in range(1, len(oi_values)), up to (0-based) index i = n
RECURSIVE OiChanges(_, _)
OiChanges(oi_values, n) ==
    IF n < 1 THEN <<>>
    ELSE LET cur  == oi_values[n + 1]
             prev == oi_values[n]
         IN  OiChanges(oi_values, n - 1) \o
             (IF Truthy(cur) /\ Truthy(prev) /\ prev[1] # 0
              THEN <<Times(Div(cur[1] - prev[1], prev[1]), 100)>>
              ELSE <<>>)

get_oi_delta_data(store, symbol, period, interval, now) ==
    IF "metrics" \in store.down THEN QueryError
    ELSE
    LET records == Query(store, "metrics", symbol, interval, now)
        buckets == LastBuckets("oi", records, interval, Len(records))
        sorted_times == sorted(DOMAIN buckets)
        oi_values == MapBuckets("oi", buckets, sorted_times)
        oi_changes == OiChanges(oi_values, Len(oi_values) - 1)
    IN  IF records = <<>> THEN Outcome(FALSE, None, records, <<>>, <<>>)
        ELSE IF Len(sorted_times) < 2 THEN Outcome(FALSE, None, records, buckets, <<>>)
        ELSE IF oi_changes = <<>> THEN Outcome(FALSE, None, records, buckets, oi_changes)
        ELSE Outcome(Raises(oi_changes),
                     Some([current |-> oi_changes[Len(oi_changes)],
                           last_5  |-> Last5(oi_changes),
                           period  |-> period]),
                     records, buckets, oi_changes)

\* float(fr) * 100 for the buckets whose rate is not None
RECURSIVE FundingValues(_)
FundingValues(rates) ==
    IF rates = <<>> THEN <<>>
    ELSE (IF rates[1] # None THEN <<rates[1][1] * 100>> ELSE <<>>)
         \o FundingValues(Tail(rates))

get_funding_data(store, symbol, period, interval, now) ==
    IF "metrics" \in store.down THEN QueryError
    ELSE
    LET records == Query(store, "metrics", symbol, interval, now)
        buckets == LastBuckets("funding", records, interval, Len(records))
        sorted_times == sorted(DOMAIN buckets)
        funding_values == FundingValues(MapBuckets("funding", buckets, sorted_times))
        current_funding == funding_values[Len(funding_values)]
    IN  IF records = <<>> THEN Outcome(FALSE, None, records, <<>>, <<>>)
        ELSE IF sorted_times = <<>> THEN Outcome(FALSE, None, records, buckets, <<>>)
        ELSE IF funding_values = <<>> THEN Outcome(FALSE, None, records, buckets, funding_values)
        ELSE Outcome(FALSE,
                     Some([current    |-> current_funding,
                           last_5     |-> Last5(funding_values),
                           annualized |-> current_funding * 3 * 365,
                           period     |-> period]),
                     records, buckets, funding_values)

get_depth_data(store, symbol, period, interval, now) ==
    IF "orderbook" \in store.down THEN QueryError
    ELSE
    LET records == Query(store, "orderbook", symbol, interval, now)
        buckets == LastBuckets("depth", records, interval, Len(records))
        sorted_times == sorted(DOMAIN buckets)
        ratios == MapBuckets("depth", buckets, sorted_times)
        current_bucket == buckets[sorted_times[Len(sorted_times)]]
    IN  IF records = <<>> THEN Outcome(FALSE, None, records, <<>>, <<>>)
        ELSE IF sorted_times = <<>> THEN Outcome(FALSE, None, records, buckets, <<>>)
        ELSE Outcome(Raises(ratios),
                     Some([bid          |-> OrZero(decimal_to_float(current_bucket.bid)),
                           ask          |-> OrZero(decimal_to_float(current_bucket.ask)),
                           ratio        |-> DepthRatio(current_bucket),
                           ratio_last_5 |-> Last5(ratios),
                           spread       |-> decimal_to_float(current_bucket.spread),
                           period       |-> period]),
                     records, buckets, ratios)

get_imbalance_data(store, symbol, period, interval, now) ==
    IF "orderbook" \in store.down THEN QueryError
    ELSE
    LET records == Query(store, "orderbook", symbol, interval, now)
        buckets == LastBuckets("imbalance", records, interval, Len(records))
        sorted_times == sorted(DOMAIN buckets)
        imbalances == MapBuckets("imbalance", buckets, sorted_times)
    IN  IF records = <<>> THEN Outcome(FALSE, None, records, <<>>, <<>>)
        ELSE IF sorted_times = <<>> THEN Outcome(FALSE, None, records, buckets, <<>>)
        ELSE Outcome(Raises(imbalances),
                     Some([current |-> imbalances[Len(imbalances)],
                           last_5  |-> Last5(imbalances),
                           period  |-> period]),
                     records, buckets, imbalances)

-----------------------------------------------------------------------------
(* Dispatcher: get_flow_indicators_for_prompt, one request context c *)

CVD       == <<"C","V","D">>
TAKER     == <<"T","A","K","E","R">>
OI        == <<"O","I">>
OI_DELTA  == <<"O","I","_","D","E","L","T","A">>
FUNDING   == <<"F","U","N","D","I","N","G">>
DEPTH     == <<"D","E","P","T","H">>
IMBALANCE == <<"I","M","B","A","L","A","N","C","E">>

\* faulty variant: only the five names of the docstring are dispatched
RecognizedDocstring == {CVD, TAKER, OI, FUNDING, DEPTH}

\* the names of the if / elif chain
Recognized == {CVD, TAKER, OI, OI_DELTA, FUNDING, DEPTH, IMBALANCE}

\* the calculator the if / elif chain selects for a recognized name
Calculate(name, store, symbol, period, interval, now) ==
    CASE name = CVD       -> get_cvd_data(store, symbol, period, interval, now)
      [] name = TAKER     -> get_taker_data(store, symbol, period, interval, now)
      [] name = OI        -> get_oi_data(store, symbol, period, interval, now)
      [] name = OI_DELTA  -> get_oi_delta_data(store, symbol, period, interval, now)
      [] name = FUNDING   -> get_funding_data(store, symbol, period, interval, now)
      [] name = DEPTH     -> get_depth_data(store, symbol, period, interval, now)
      [] name = IMBALANCE -> get_imbalance_data(store, symbol, period, interval, now)

NoCalc == [name |-> <<>>, raised |-> FALSE, ret |-> None,
           records |-> <<>>, buckets |-> <<>>, values |-> <<>>]

\* values datetime.utcnow() may give
Clock == {600000}

\* faulty variant: results and the other locals kept in one module-level slot
FrameShared(c) == 1

\* the request context whose locals an assignment of context c writes to
Frame(c) == c

\* lines 92-102: period check, interval lookup, default of current_time_ms
Call(c) ==
    /\ pc[c] = "idle"
    /\ IF args[c].period \notin DOMAIN TIMEFRAME_MS
       THEN /\ ret' = [ret EXCEPT ![Frame(c)] = Some(<<>>)]
            /\ pc' = [pc EXCEPT ![c] = "done"]
            /\ UNCHANGED <<interval_ms, current_time_ms, idx, results>>
       ELSE /\ interval_ms' = [interval_ms EXCEPT ![Frame(c)] = TIMEFRAME_MS[args[c].period]]
            /\ \E clock \in Clock :
                 current_time_ms' =
                     [current_time_ms EXCEPT ![Frame(c)] =
                         IF args[c].current_time_ms = None
                         THEN clock ELSE args[c].current_time_ms[1]]
            /\ results' = [results EXCEPT ![Frame(c)] = <<>>]
            /\ idx' = [idx EXCEPT ![c] = 1]
            /\ pc' = [pc EXCEPT ![c] = "loop"]
            /\ UNCHANGED ret
    /\ UNCHANGED <<db, args, queries, calc, ft>>

\* faulty variant: no except clause, the exception leaves the loop
TryNoExcept(o) == [escaped |-> o.raised, value |-> o.ret]

\* lines 106-125: try / except Exception around the calculator call.  The
\* exception is caught: nothing escapes, the value stored is None
Try(o) == [escaped |-> FALSE, value |-> IF o.raised THEN None ELSE o.ret]

\* lines 104-125: one iteration of the for loop, the calculator call included
Iterate(c) ==
    /\ pc[c] = "loop"
    /\ idx[c] <= Len(args[c].indicators)
    /\ LET indicator == args[c].indicators[idx[c]]
           indicator_upper == upper(indicator)
       IN  IF indicator_upper \in Recognized
           THEN \E o \in {Calculate(indicator_upper, db, args[c].symbol, args[c].period,
                                    interval_ms[c], current_time_ms[c])} :
                    /\ calc' = [calc EXCEPT ![Frame(c)] =
                                   [name |-> indicator_upper, raised |-> o.raised,
                                    ret |-> o.ret, records |-> o.records,
                                    buckets |-> o.buckets, values |-> o.values]]
                    /\ queries' = [queries EXCEPT ![c] = @ + 1]
                    /\ IF Try(o).escaped
                       THEN \* an exception leaves get_flow_indicators_for_prompt
                            /\ pc' = [pc EXCEPT ![c] = "raised"]
                            /\ UNCHANGED <<results, idx>>
                       ELSE /\ results' = [results EXCEPT ![Frame(c)] =
                                   DictSet(results[Frame(c)], indicator_upper, Try(o).value)]
                            /\ idx' = [idx EXCEPT ![c] = @ + 1]
                            /\ UNCHANGED pc
           ELSE /\ idx' = [idx EXCEPT ![c] = @ + 1]
                /\ UNCHANGED <<results, calc, queries, pc>>
    /\ UNCHANGED <<db, args, interval_ms, current_time_ms, ret, ft>>

\* line 127: return results
Return(c) ==
    /\ pc[c] = "loop"
    /\ idx[c] > Len(args[c].indicators)
    /\ ret' = [ret EXCEPT ![Frame(c)] = Some(results[Frame(c)])]
    /\ pc' = [pc EXCEPT ![c] = "done"]
    /\ UNCHANGED <<db, args, interval_ms, current_time_ms, idx, results, queries, calc, ft>>

Next == \E c \in Calls : Call(c) \/ Iterate(c) \/ Return(c)

\* floor_timestamp applied to the inputs held in ft
ApplyFloor ==
    /\ ft.out = None
    /\ ft' = [ft EXCEPT !.out = Some(floor_timestamp(ft.ts_ms, ft.interval_ms))]
    /\ UNCHANGED <<db, pc, args, interval_ms, current_time_ms, idx, results, ret, queries, calc>>

NextFloor == ApplyFloor \/ Next

-----------------------------------------------------------------------------
(* Inputs *)

BTC == <<"B","T","C">>
ETH == <<"E","T","H">>

Trade(ts, sym, buy, sell) ==
    [timestamp |-> ts, symbol |-> sym,
     taker_buy_notional |-> buy, taker_sell_notional |-> sell]

Metric(ts, sym, oi, fr) ==
    [timestamp |-> ts, symbol |-> sym, open_interest |-> oi, funding_rate |-> fr]

Snapshot(ts, sym, bid, ask, spread) ==
    [timestamp |-> ts, symbol |-> sym,
     bid_depth_5 |-> bid, ask_depth_5 |-> ask, spread |-> spread]

\* rows a table may hold: one per (symbol, timestamp), volumes and depths
\* non-negative or NULL
TradePool ==
    { Trade(-1,     BTC, Some(10),   None),
      Trade(0,      BTC, Some(100),  Some(40)),
      Trade(59999,  BTC, None,       Some(30)),
      Trade(60000,  BTC, Some(50),   Some(50)),
      Trade(60000,  ETH, Some(1000), Some(1)),
      Trade(120000, BTC, Some(7),    Some(0)),
      Trade(180000, BTC, None,       None),
      Trade(240000, BTC, Some(5),    Some(20)),
      Trade(360000, BTC, Some(0),    Some(2)) }

MetricPool ==
    { Metric(-1,     BTC, Some(100), Some(1)),
      Metric(0,      BTC, Some(200), None),
      Metric(59999,  BTC, None,      Some(2)),
      Metric(60000,  BTC, Some(0),   Some(0)),
      Metric(60000,  ETH, Some(999), Some(9)),
      Metric(120000, BTC, Some(250), Some(-3)),
      Metric(180000, BTC, None,      None),
      Metric(240000, BTC, Some(300), Some(5)),
      Metric(360000, BTC, Some(450), Some(4)) }

SnapshotPool ==
    { Snapshot(-1,     BTC, None,     None,     None),
      Snapshot(0,      BTC, Some(30), Some(10), Some(2)),
      Snapshot(59999,  BTC, Some(10), Some(30), None),
      Snapshot(60000,  BTC, Some(0),  Some(0),  Some(1)),
      Snapshot(60000,  ETH, Some(77), Some(7),  Some(1)),
      Snapshot(120000, BTC, None,     Some(8),  Some(1)),
      Snapshot(180000, BTC, Some(8),  None,     Some(1)),
      Snapshot(240000, BTC, Some(4),  Some(0),  Some(1)),
      Snapshot(360000, BTC, Some(0),  Some(6),  Some(1)) }

Pool(source) ==
    CASE source = "trades"    -> TradePool
      [] source = "metrics"   -> MetricPool
      [] source = "orderbook" -> SnapshotPool

\* the subsets of S with at most n elements
RECURSIVE UpTo(_, _)
UpTo(S, n) ==
    IF n = 0 \/ S = {} THEN {{}}
    ELSE LET x == CHOOSE y \in S : TRUE
         IN  UpTo(S \ {x}, n) \cup {T \cup {x} : T \in UpTo(S \ {x}, n - 1)}

Store(trades, metrics, orderbook, down) ==
    [trades |-> trades, metrics |-> metrics, orderbook |-> orderbook, down |-> down]

\* the store with one table populated by at most MaxRows rows of its pool
OneTable(source, rows) ==
    Store(IF source = "trades" THEN rows ELSE {},
          IF source = "metrics" THEN rows ELSE {},
          IF source = "orderbook" THEN rows ELSE {}, {})

\* the indicators computed from a source
ReadFrom(source) ==
    CASE source = "trades"    -> {CVD, TAKER}
      [] source = "metrics"   -> {OI, OI_DELTA, FUNDING}
      [] source = "orderbook" -> {DEPTH, IMBALANCE}

SourceOf(name) == CHOOSE source \in Sources : name \in ReadFrom(source)

\* the store holding the rows of every pool with timestamp >= from
SampleStore(from, down) ==
    Store({r \in TradePool : r.timestamp >= from},
          {r \in MetricPool : r.timestamp >= from},
          {r \in SnapshotPool : r.timestamp >= from}, down)

Periods == DOMAIN TIMEFRAME_MS
BadPeriods == {"10m", "1H"}

\* requested names: every recognized name in some case, a duplicate of CVD
\* in another case, and an unknown name
NamePool ==
    { <<"c","v","d">>, CVD, <<"T","a","k","e","r">>, <<"o","i">>,
      <<"o","i","_","d","e","l","t","a">>, <<"F","U","N","D","I","N","G">>,
      <<"D","e","p","t","h">>, <<"i","m","b","a","l","a","n","c","e">>,
      <<"B","O","G","U","S">> }

\* the sequences over S of length at most n
SeqUpTo(S, n) == UNION {[1..k -> S] : k \in 0..n}

Args(symbol, period, indicators, now) ==
    [symbol |-> symbol, period |-> period, indicators |-> indicators,
     current_time_ms |-> now]

IdleArgs == Args(BTC, "1m", <<>>, None)

\* the state before any call: the contexts of `active` are about to call
\* with arguments a[c], the others never call
Start(store, active, a, f) ==
    /\ db = store
    /\ pc = [c \in Calls |-> IF c \in active THEN "idle" ELSE "off"]
    /\ args = [c \in Calls |-> IF c \in active THEN a[c] ELSE IdleArgs]
    /\ interval_ms = [c \in Calls |-> 0]
    /\ current_time_ms = [c \in Calls |-> 0]
    /\ idx = [c \in Calls |-> 0]
    /\ results = [c \in Calls |-> <<>>]
    /\ ret = [c \in Calls |-> None]
    /\ queries = [c \in Calls |-> 0]
    /\ calc = [c \in Calls |-> NoCalc]
    /\ ft = f

NoFloor == [ts_ms |-> 0, interval_ms |-> 1, out |-> Some(0)]

\* Dispatcher: one context, any request list, every period label
Init ==
    \E down \in UpTo(Sources, 1) \cup {Sources},
       symbol \in {<<"b","t","c">>}, period \in Periods \cup BadPeriods,
       indicators \in SeqUpTo(NamePool, MaxReq), now \in {Some(360000), Some(6000000)} :
        Start(SampleStore(0, down), {1},
              [c \in Calls |-> Args(symbol, period, indicators, now)], NoFloor)

Spec == Init /\ [][Next]_vars

\* Calculators: one context requesting one indicator of a populated table
InitCalc ==
    \E source \in Sources :
      \E rows \in UpTo(Pool(source), MaxRows), name \in ReadFrom(source),
         symbol \in {<<"b","t","c">>}, period \in {"1m", "3m"},
         now \in {None, Some(60000), Some(360000)} :
        Start(OneTable(source, rows), {1},
              [c \in Calls |-> Args(symbol, period, <<name>>, now)], NoFloor)

SpecCalc == InitCalc /\ [][Next]_vars

\* Concurrent calls: every context calls, over the same store
InitConc ==
    \E a \in [Calls -> {Args(symbol, period, indicators, Some(360000)) :
                          symbol \in {BTC}, period \in {"1m", "10m"},
                          indicators \in SeqUpTo({<<"c","v","d">>, OI}, ConcMaxReq)}] :
        Start(SampleStore(0, {}), Calls, a, NoFloor)

SpecConc == InitConc /\ [][Next]_vars

\* floor_timestamp on its own, next to a calculator run over rows with
\* negative timestamps
FloorTs == (-MaxTs..MaxTs) \cup {-60001, -60000, 59999, 60000, 60001}
FloorIntervals == (1..MaxInterval) \cup {60000}

InitFloor ==
    \E t \in FloorTs, i \in FloorIntervals,
       name \in Recognized, period \in {"1m", "3m"} :
        Start(SampleStore(-1, {}), {1},
              [c \in Calls |-> Args(BTC, period, <<name>>, Some(120000))],
              [ts_ms |-> t, interval_ms |-> i, out |-> None])

SpecFloor == InitFloor /\ [][NextFloor]_vars

-----------------------------------------------------------------------------
(* Properties *)

\* two characters that differ at most in case
SameLetter(a, b) ==
    \/ a = b
    \/ \E j \in 1..Len(LowerCase) : {a, b} = {LowerCase[j], UpperCase[j]}

\* name, whatever its case, spells the upper-case name k
Spells(name, k) ==
    /\ Len(name) = Len(k)
    /\ \A j \in 1..Len(k) : SameLetter(name[j], k[j])

SevenNames ==
    { <<"C","V","D">>, <<"T","A","K","E","R">>, <<"O","I">>,
      <<"O","I","_","D","E","L","T","A">>, <<"F","U","N","D","I","N","G">>,
      <<"D","E","P","T","H">>, <<"I","M","B","A","L","A","N","C","E">>}

\* the table an indicator is computed from
TableOf(k) ==
    IF k \in {<<"C","V","D">>, <<"T","A","K","E","R">>} THEN "trades"
    ELSE IF k \in {<<"D","E","P","T","H">>, <<"I","M","B","A","L","A","N","C","E">>}
         THEN "orderbook" ELSE "metrics"

Supported(c) == args[c].period \in {"1m", "3m", "5m", "15m", "30m", "1h", "2h", "4h"}

Requested(c) == {args[c].indicators[j] : j \in 1..Len(args[c].indicators)}

\* the rows of the table of indicator k inside the lookback window of context c
Window(c, k) ==
    {r \in db[TableOf(k)] :
        /\ Spells(args[c].symbol, r.symbol)
        /\ r.timestamp >= current_time_ms[c] - 10 * interval_ms[c]
        /\ r.timestamp <= current_time_ms[c]}

\* the mapping a finished call returned
Returned(c) == ret[c][1]

\* C1: when the period is supported, the keys of the returned mapping are
\* exactly the names among CVD, TAKER, OI, OI_DELTA, FUNDING, DEPTH, IMBALANCE
\* that some requested name spells in any case; unknown names are absent,
\* and a key whose table has no row in the window maps to None.
C1_KeySet ==
    \A c \in Calls :
        (pc[c] = "done" /\ Supported(c)) =>
            /\ ret[c] # None
            /\ DOMAIN Returned(c) =
                   {k \in SevenNames : \E name \in Requested(c) : Spells(name, k)}
            /\ \A k \in DOMAIN Returned(c) :
                   Window(c, k) = {} => Returned(c)[k] = None

\* a duplicate in another case and an unknown name were requested; CVD has
\* a result, BOGUS is absent
C1_Witness ==
    \E c \in Calls :
        /\ pc[c] = "done"
        /\ Supported(c)
        /\ args[c].indicators = << <<"c","v","d">>, <<"B","O","G","U","S">> >>
        /\ DOMAIN Returned(c) = {CVD}
        /\ Returned(c)[CVD] # None

\* duplicates differing in case give one key; no row in the window gives None
C1_WitnessNull ==
    \E c \in Calls :
        /\ pc[c] = "done"
        /\ Supported(c)
        /\ args[c].indicators = << <<"c","v","d">>, CVD >>
        /\ "trades" \notin db.down
        /\ Returned(c) = (CVD :> None)

\* C2: a calculator that raises does not make get_flow_indicators_for_prompt
\* raise; its name maps to None, the loop goes on to the names after it, and
\* every name whose calculator does not raise maps to what that calculator
\* returns.
C2_ErrorIsolated ==
    \A c \in Calls :
        /\ pc[c] # "raised"
        /\ (pc[c] = "done" /\ Supported(c)) =>
              /\ \A name \in Requested(c) : \A k \in SevenNames :
                    Spells(name, k) => k \in DOMAIN Returned(c)
              /\ \A k \in DOMAIN Returned(c) :
                    IF TableOf(k) \in db.down
                    THEN Returned(c)[k] = None
                    ELSE Returned(c)[k] =
                            Calculate(k, [db EXCEPT !.down = {}], args[c].symbol,
                                      args[c].period, interval_ms[c],
                                      current_time_ms[c]).ret

\* the first requested indicator failed, the one after it has its result
C2_Witness ==
    \E c \in Calls :
        /\ pc[c] = "done"
        /\ Supported(c)
        /\ db.down = {"trades"}
        /\ args[c].indicators = << <<"c","v","d">>, <<"o","i">> >>
        /\ DOMAIN Returned(c) = {CVD, OI}
        /\ Returned(c)[CVD] = None
        /\ Returned(c)[OI] # None

IntervalOf(p) ==
    CASE p = "1m" -> 60000    [] p = "3m" -> 180000   [] p = "5m" -> 300000
      [] p = "15m" -> 900000  [] p = "30m" -> 1800000 [] p = "1h" -> 3600000
      [] p = "2h" -> 7200000  [] p = "4h" -> 14400000

\* C3: a call with a period outside the eight labels returns the empty
\* mapping, does not raise and issues no query; a call with one of the eight
\* labels uses the interval of the lookup table.
C3_Period ==
    \A c \in Calls :
        IF Supported(c)
        THEN pc[c] \in {"loop", "done"} => interval_ms[c] = IntervalOf(args[c].period)
        ELSE /\ pc[c] \in {"idle", "done"}
             /\ queries[c] = 0
             /\ pc[c] = "done" => ret[c] = Some(<<>>)

C3_Witness ==
    \E c \in Calls :
        /\ pc[c] = "done"
        /\ args[c].period = "10m"
        /\ Len(args[c].indicators) = 2
        /\ ret[c] = Some(<<>>)
        /\ db.down = {}

\* the fetched rows of the calculator run last in context c
Fetched(c) == {calc[c].records[j] : j \in 1..Len(calc[c].records)}

\* C4: for every timestamp t, negative ones included, and every positive
\* interval i, k = floor_timestamp(t, i) satisfies k <= t < k + i and
\* k mod i = 0, so k is the largest multiple of i not above t; every key of a
\* calculator's bucket dict is a multiple of the interval, and every fetched
\* row lies in exactly one bucket of the dict.
C4_Floor ==
    /\ ft.out # None =>
          LET t == ft.ts_ms
              i == ft.interval_ms
              k == ft.out[1]
          IN  /\ k <= t
              /\ t < k + i
              /\ k % i = 0
              /\ \A m \in {k - i, k, k + i} : (m % i = 0 /\ m <= t) => m <= k
    /\ \A c \in Calls :
          /\ \A key \in DOMAIN calc[c].buckets : key % interval_ms[c] = 0
          /\ \A r \in Fetched(c) :
                /\ r.timestamp - (r.timestamp % interval_ms[c]) \in DOMAIN calc[c].buckets
                /\ Cardinality({key \in DOMAIN calc[c].buckets :
                                   key <= r.timestamp /\ r.timestamp < key + interval_ms[c]}) = 1

\* a negative timestamp off the boundary was floored, and a calculator built
\* a bucket with a negative key
C4_Witness ==
    /\ ft = [ts_ms |-> -7, interval_ms |-> 5, out |-> Some(-10)]
    /\ \E c \in Calls :
          /\ pc[c] = "done"
          /\ -60000 \in DOMAIN calc[c].buckets
          /\ 0 \in DOMAIN calc[c].buckets

\* a nullable number with NULL counted as zero
N0(x) == IF x = <<>> THEN 0 ELSE x[1]

\* the multiple of i that starts the bucket of t
KeyOf(t, i) == t - (t % i)

KeysOf(R, i) == {KeyOf(r.timestamp, i) : r \in R}

InBucket(R, i, k) == {r \in R : KeyOf(r.timestamp, i) = k}

RECURSIVE SumBuy(_)
SumBuy(R) ==
    IF R = {} THEN 0
    ELSE LET r == CHOOSE x \in R : TRUE
         IN  N0(r.taker_buy_notional) + SumBuy(R \ {r})

RECURSIVE SumSell(_)
SumSell(R) ==
    IF R = {} THEN 0
    ELSE LET r == CHOOSE x \in R : TRUE
         IN  N0(r.taker_sell_notional) + SumSell(R \ {r})

\* summed buy minus summed sell of the rows of bucket k
DeltaOf(R, i, k) == SumBuy(InBucket(R, i, k)) - SumSell(InBucket(R, i, k))

RECURSIVE SumDeltas(_, _, _)
SumDeltas(R, i, K) ==
    IF K = {} THEN 0
    ELSE LET k == CHOOSE x \in K : TRUE
         IN  DeltaOf(R, i, k) + SumDeltas(R, i, K \ {k})

\* position of key k in the ascending sequence of the keys K
Rank(K, k) == Cardinality({x \in K : x <= k})

Latest(K) == CHOOSE k \in K : \A x \in K : x <= k

\* C5: when the window holds trade rows, CVD returns a result; the buckets
\* are those of the rows, the value of a bucket is the summed buy notional
\* minus the summed sell notional of its rows (NULL as zero), cumulative is
\* the sum of the bucket deltas and current is the delta of the latest bucket.
C5_Cvd ==
    \A c \in Calls :
        calc[c].name = CVD =>
            LET R == Window(c, CVD)
                i == interval_ms[c]
                K == KeysOf(R, i)
            IN  IF R = {} THEN calc[c].ret = None
                ELSE /\ ~calc[c].raised
                     /\ calc[c].ret # None
                     /\ DOMAIN calc[c].buckets = K
                     /\ Len(calc[c].values) = Cardinality(K)
                     /\ \A k \in K :
                           /\ calc[c].buckets[k].buy = SumBuy(InBucket(R, i, k))
                           /\ calc[c].buckets[k].sell = SumSell(InBucket(R, i, k))
                           /\ calc[c].values[Rank(K, k)] = DeltaOf(R, i, k)
                     /\ calc[c].ret[1].cumulative = SumDeltas(R, i, K)
                     /\ calc[c].ret[1].current = DeltaOf(R, i, Latest(K))

\* rows (t=0, buy 100, sell 40) and (t=60000, buy 50, sell 50), period 1m,
\* current_time_ms = 60000
C5_Witness ==
    \E c \in Calls :
        /\ pc[c] = "done"
        /\ db.trades = {Trade(0, BTC, Some(100), Some(40)), Trade(60000, BTC, Some(50), Some(50))}
        /\ args[c].period = "1m"
        /\ args[c].current_time_ms = Some(60000)
        /\ Returned(c) = (CVD :> Some([current |-> 0, last_5 |-> <<60, 0>>,
                                        cumulative |-> 60, period |-> "1m"]))

\* several rows, one of them with a NULL notional, were summed into one bucket
C5_WitnessSum ==
    \E c \in Calls :
        /\ calc[c].name = CVD
        /\ calc[c].ret # None
        /\ \E k \in DOMAIN calc[c].buckets :
              /\ Cardinality(InBucket(Window(c, CVD), interval_ms[c], k)) >= 3
              /\ \E r \in InBucket(Window(c, CVD), interval_ms[c], k) :
                    r.taker_buy_notional = None

\* the history sequence and the current value of a result
HistOf(name, res) == IF name \in {TAKER, DEPTH} THEN res.ratio_last_5 ELSE res.last_5
CurOf(name, res) == IF name \in {TAKER, DEPTH} THEN res.ratio ELSE res.current

\* the key at position p of the ascending sequence of the keys K
KeyAt(K, p) == CHOOSE k \in K : Rank(K, k) = p

\* the value of the bucket with key k, per indicator; None where the bucket
\* has none (a NULL sample, or no change against the bucket before it)
ValueOfBucket(name, buckets, k) ==
    LET b == buckets[k]
        K == DOMAIN buckets
    IN  CASE name = CVD -> Some(b.buy - b.sell)
          [] name = TAKER -> Some(IF b.sell = 0 THEN <<1, 1>> ELSE Q(b.buy, b.sell))
          [] name = OI -> b
          [] name = FUNDING -> IF b = None THEN None ELSE Some(b[1] * 100)
          [] name = DEPTH ->
                Some(IF N0(b.ask) = 0 THEN <<1, 1>> ELSE Q(N0(b.bid), N0(b.ask)))
          [] name = IMBALANCE ->
                Some(IF N0(b.bid) + N0(b.ask) = 0 THEN <<0, 1>>
                     ELSE Q(N0(b.bid) - N0(b.ask), N0(b.bid) + N0(b.ask)))
          [] name = OI_DELTA ->
                IF Rank(K, k) = 1 THEN None
                ELSE LET p == buckets[KeyAt(K, Rank(K, k) - 1)]
                     IN  IF b = None \/ p = None THEN None
                         ELSE IF b[1] = 0 \/ p[1] = 0 THEN None
                         ELSE Some(Q((b[1] - p[1]) * 100, p[1]))

\* C6 as claimed: the history of every result holds the values of the final
\* min(5, n) of the n buckets in ascending key order, has 1 to 5 elements,
\* and the current value is its last element.
C6_Original ==
    \A c \in Calls :
        calc[c].ret # None =>
            LET name == calc[c].name
                K == DOMAIN calc[c].buckets
                n == Cardinality(K)
                h == HistOf(name, calc[c].ret[1])
            IN  /\ Len(h) = Min(5, n)
                /\ Len(h) >= 1
                /\ Len(h) <= 5
                /\ CurOf(name, calc[c].ret[1]) = h[Len(h)]
                /\ \A j \in 1..Len(h) :
                      Some(h[j]) = ValueOfBucket(name, calc[c].buckets, KeyAt(K, n - Len(h) + j))

\* the buckets that contribute a value to the history: all of them, except
\* that OI, FUNDING and OI_DELTA leave out the buckets without a value
Valued(name, buckets) ==
    {k \in DOMAIN buckets : ValueOfBucket(name, buckets, k) # None}

\* C6 as amended: the history of every result holds the values of the final
\* min(5, m) of the m buckets that have a value (buckets with a NULL sample
\* are left out by OI and FUNDING, buckets without a change against the
\* bucket before them by OI_DELTA), in ascending key order, has 1 to 5
\* elements, and the current value is its last element.
C6_History ==
    \A c \in Calls :
        calc[c].ret # None =>
            LET name == calc[c].name
                V == Valued(name, calc[c].buckets)
                m == Cardinality(V)
                h == HistOf(name, calc[c].ret[1])
            IN  /\ Len(h) = Min(5, m)
                /\ Len(h) >= 1
                /\ Len(h) <= 5
                /\ CurOf(name, calc[c].ret[1]) = h[Len(h)]
                /\ \A j \in 1..Len(h) :
                      Some(h[j]) = ValueOfBucket(name, calc[c].buckets, KeyAt(V, m - Len(h) + j))

\* OI over six buckets, one of them NULL: the history has the five values
\* of the other buckets
C6_Witness ==
    \E c \in Calls :
        /\ calc[c].name = OI
        /\ calc[c].ret # None
        /\ Cardinality(DOMAIN calc[c].buckets) = 6
        /\ \E k \in DOMAIN calc[c].buckets : calc[c].buckets[k] = None
        /\ Len(calc[c].ret[1].last_5) = 5

\* CVD over six buckets: the history is cut to the five latest
C6_WitnessCut ==
    \E c \in Calls :
        /\ calc[c].name = CVD
        /\ calc[c].ret # None
        /\ Cardinality(DOMAIN calc[c].buckets) = 6
        /\ Len(calc[c].ret[1].last_5) = 5
        /\ Len(calc[c].values) = 6

\* the row of a bucket sampled last
LastRow(R) == CHOOSE r \in R : \A x \in R : x.timestamp <= r.timestamp

\* numerator and denominator of the ratio of bucket k: summed buy and sell
\* notional for TAKER, bid and ask depth of the last sample for DEPTH (NULL
\* as zero)
RatioNum(name, R, i, k) ==
    IF name = TAKER THEN SumBuy(InBucket(R, i, k))
    ELSE N0(LastRow(InBucket(R, i, k)).bid_depth_5)

RatioDen(name, R, i, k) ==
    IF name = TAKER THEN SumSell(InBucket(R, i, k))
    ELSE N0(LastRow(InBucket(R, i, k)).ask_depth_5)

\* the fraction v equals num / den
IsQuotient(v, num, den) == v[2] > 0 /\ v[1] * den = v[2] * num

\* C7: TAKER and DEPTH return a result whenever the window holds rows; the
\* ratio of a bucket whose summed sell notional (ask depth) is 0 is exactly
\* 1.0 and any other ratio is buy / sell (bid / ask); no division by zero
\* happens and the calculator does not raise.
C7_Ratio ==
    \A c \in Calls :
        calc[c].name \in {TAKER, DEPTH} =>
            LET name == calc[c].name
                R == Window(c, name)
                i == interval_ms[c]
                K == KeysOf(R, i)
            IN  IF R = {} THEN calc[c].ret = None
                ELSE /\ ~calc[c].raised
                     /\ calc[c].ret # None
                     /\ Len(calc[c].values) = Cardinality(K)
                     /\ \A k \in K :
                           LET v == calc[c].values[Rank(K, k)]
                           IN  /\ v # ZeroDivisionError
                               /\ IF RatioDen(name, R, i, k) = 0
                                  THEN v = <<1, 1>>
                                  ELSE IsQuotient(v, RatioNum(name, R, i, k),
                                                  RatioDen(name, R, i, k))
                     /\ calc[c].ret[1].ratio = calc[c].values[Len(calc[c].values)]
                     /\ calc[c].ret[1].ratio # ZeroDivisionError

\* TAKER over a bucket with buy 7 and sell 0 and a bucket with sell > 0
C7_Witness ==
    \E c \in Calls :
        /\ calc[c].name = TAKER
        /\ calc[c].ret # None
        /\ \E k \in DOMAIN calc[c].buckets :
              /\ calc[c].buckets[k] = [buy |-> 7, sell |-> 0]
              /\ calc[c].values[Rank(DOMAIN calc[c].buckets, k)] = <<1, 1>>
        /\ \E k \in DOMAIN calc[c].buckets :
              /\ calc[c].buckets[k] = [buy |-> 5, sell |-> 20]
              /\ calc[c].values[Rank(DOMAIN calc[c].buckets, k)] = <<1, 4>>

\* DEPTH over a latest bucket with bid 4 and ask 0
C7_WitnessDepth ==
    \E c \in Calls :
        /\ calc[c].name = DEPTH
        /\ calc[c].ret # None
        /\ calc[c].ret[1].bid = 4
        /\ calc[c].ret[1].ask = 0
        /\ calc[c].ret[1].ratio = <<1, 1>>
        /\ Len(calc[c].ret[1].ratio_last_5) >= 2

\* C8: with non-negative depths, every IMBALANCE value (each per-bucket
\* value, each element of last_5 and current) is (bid - ask) / (bid + ask)
\* of the bucket's last sample, lies in [-1, 1], and is exactly 0.0 when
\* bid = ask = 0.
C8_Imbalance ==
    \A c \in Calls :
        calc[c].name = IMBALANCE =>
            LET R == Window(c, IMBALANCE)
                i == interval_ms[c]
                K == KeysOf(R, i)
                V == calc[c].values
            IN  IF R = {} THEN calc[c].ret = None
                ELSE /\ ~calc[c].raised
                     /\ calc[c].ret # None
                     /\ Len(V) = Cardinality(K)
                     /\ \A k \in K :
                           LET v == V[Rank(K, k)]
                               bid == N0(LastRow(InBucket(R, i, k)).bid_depth_5)
                               ask == N0(LastRow(InBucket(R, i, k)).ask_depth_5)
                           IN  /\ bid >= 0 /\ ask >= 0
                               /\ IF bid = 0 /\ ask = 0 THEN v = <<0, 1>>
                                  ELSE IsQuotient(v, bid - ask, bid + ask)
                               /\ v[2] > 0
                               /\ -v[2] <= v[1]
                               /\ v[1] <= v[2]
                     /\ calc[c].ret[1].current = V[Len(V)]
                     /\ LET h == calc[c].ret[1].last_5
                        IN  \A j \in 1..Len(h) : h[j] = V[Len(V) - Len(h) + j]

\* IMBALANCE over buckets with bid = ask = 0, with ask = 0 only and with
\* bid = 0 only: 0.0, 1.0 and -1.0
C8_Witness ==
    \E c \in Calls :
        /\ calc[c].name = IMBALANCE
        /\ calc[c].ret # None
        /\ \E k \in DOMAIN calc[c].buckets :
              /\ calc[c].buckets[k] = [bid |-> Some(0), ask |-> Some(0)]
              /\ calc[c].values[Rank(DOMAIN calc[c].buckets, k)] = <<0, 1>>
        /\ \E j \in 1..Len(calc[c].ret[1].last_5) : calc[c].ret[1].last_5[j] = <<1, 1>>
        /\ calc[c].ret[1].current = <<-1, 1>>

\* C9: OI_DELTA maps to None whenever the window's rows fall into fewer than
\* two buckets, however many rows there are, so a result implies at least
\* two buckets; the None is a value, the call does not raise, and the other
\* names of the mapping have the result of their own calculator.
C9_OiDeltaMin ==
    \A c \in Calls :
        /\ pc[c] # "raised"
        /\ (pc[c] = "done" /\ Supported(c) /\ OI_DELTA \in DOMAIN Returned(c)) =>
              LET n == Cardinality(KeysOf(Window(c, OI_DELTA), interval_ms[c]))
              IN  /\ n < 2 => Returned(c)[OI_DELTA] = None
                  /\ Returned(c)[OI_DELTA] # None => n >= 2
                  /\ \A k \in DOMAIN Returned(c) \ {OI_DELTA} :
                        Returned(c)[k] =
                            IF TableOf(k) \in db.down THEN None
                            ELSE Calculate(k, db, args[c].symbol, args[c].period,
                                           interval_ms[c], current_time_ms[c]).ret

\* several rows in one bucket: OI_DELTA is None, its sibling OI has a result
C9_Witness ==
    \E c \in Calls :
        /\ pc[c] = "done"
        /\ Supported(c)
        /\ args[c].indicators = << <<"o","i","_","d","e","l","t","a">>, <<"o","i">> >>
        /\ Cardinality(Window(c, OI_DELTA)) >= 3
        /\ Cardinality(KeysOf(Window(c, OI_DELTA), interval_ms[c])) = 1
        /\ DOMAIN Returned(c) = {OI_DELTA, OI}
        /\ Returned(c)[OI_DELTA] = None
        /\ Returned(c)[OI] # None

\* two or more buckets: OI_DELTA has a result
C9_WitnessValue ==
    \E c \in Calls :
        /\ pc[c] = "done"
        /\ Supported(c)
        /\ OI_DELTA \in DOMAIN Returned(c)
        /\ Returned(c)[OI_DELTA] # None
        /\ Cardinality(KeysOf(Window(c, OI_DELTA), interval_ms[c])) = 2

\* the mapping the call of context c returns when it runs alone over the
\* store, from its arguments only
Alone(c) ==
    IF ~Supported(c) THEN <<>>
    ELSE [k \in {x \in SevenNames : \E name \in Requested(c) : Spells(name, x)} |->
            IF TableOf(k) \in db.down THEN None
            ELSE Calculate(k, db, args[c].symbol, args[c].period,
                           IntervalOf(args[c].period), args[c].current_time_ms[1]).ret]

\* the step is taken by context c
Moves(c) == pc'[c] # pc[c] \/ idx'[c] # idx[c]

\* what context c holds: its position, its locals and what it returned
Locals(c) == <<pc[c], idx[c], interval_ms[c], current_time_ms[c], results[c],
               calc[c], queries[c], ret[c]>>

\* C10: whatever the interleaving of the calls, each call returns the mapping
\* it returns when run alone, so calls with the same arguments return the
\* same mapping; no step writes to the store; and a step of one context
\* leaves the locals, buckets and results of every other context as they
\* were.
C10_Independent ==
    /\ [](\A c \in Calls : pc[c] = "done" => ret[c] = Some(Alone(c)))
    /\ [](\A c, d \in Calls :
             (pc[c] = "done" /\ pc[d] = "done" /\ args[c] = args[d]) => ret[c] = ret[d])
    /\ [][ /\ db' = db
           /\ \A c \in Calls : Moves(c) =>
                \A d \in Calls \ {c} : Locals(d)' = Locals(d) ]_vars

\* two calls in flight at once, each with its own partial results
C10_Witness ==
    /\ pc[1] = "loop"
    /\ pc[2] = "loop"
    /\ idx[1] = 2
    /\ idx[2] = 2
    /\ DOMAIN results[1] = {CVD}
    /\ DOMAIN results[2] = {OI}
    /\ results[1][CVD] # None
    /\ results[2][OI] # None

\* positions p >= 2 of the ascending bucket sequence whose change against the
\* bucket before is computable and not skipped as claimed: the previous
\* value is neither NULL nor 0 (and the value itself is not NULL)
ClaimedPairs(buckets) ==
    LET K == DOMAIN buckets
    IN  {p \in 2..Cardinality(K) :
            /\ buckets[KeyAt(K, p - 1)] # None
            /\ buckets[KeyAt(K, p - 1)][1] # 0
            /\ buckets[KeyAt(K, p)] # None}

\* (v[p] - v[p-1]) / v[p-1] * 100
ChangeAt(buckets, p) ==
    LET K == DOMAIN buckets
        v == buckets[KeyAt(K, p)][1]
        w == buckets[KeyAt(K, p - 1)][1]
    IN  Q((v - w) * 100, w)

\* C11 as claimed: OI_DELTA appends the change (v[i] - v[i-1]) / v[i-1] * 100
\* for every pair of consecutive buckets, skipping a pair only when v[i-1]
\* is 0 or NULL; current is the last change.
C11_Original ==
    \A c \in Calls :
        (calc[c].name = OI_DELTA /\ Cardinality(DOMAIN calc[c].buckets) >= 2) =>
            LET E == ClaimedPairs(calc[c].buckets)
            IN  /\ Len(calc[c].values) = Cardinality(E)
                /\ \A p \in E : calc[c].values[Rank(E, p)] = ChangeAt(calc[c].buckets, p)
                /\ E # {} =>
                      /\ calc[c].ret # None
                      /\ calc[c].ret[1].current = ChangeAt(calc[c].buckets, Latest(E))

\* a calculator has run in context c and its query did not fail
Ran(c) == calc[c].name \in SevenNames /\ ~calc[c].raised

\* the bucket keys floor(now) - j * interval for j in 0..n
Candidates(c, n) ==
    {KeyOf(current_time_ms[c], interval_ms[c]) - j * interval_ms[c] : j \in 0..n}

\* C12 as claimed: the records used are exactly the rows of the upper-cased
\* symbol with now - 10 * interval <= timestamp <= now, and they fall into at
\* most 10 distinct buckets, the 10 most recent candidate buckets.
C12_Original ==
    \A c \in Calls :
        Ran(c) =>
            /\ Fetched(c) = Window(c, calc[c].name)
            /\ Cardinality(KeysOf(Fetched(c), interval_ms[c])) <= 10
            /\ KeysOf(Fetched(c), interval_ms[c]) \subseteq Candidates(c, 9)

\* C12: for every calculator, the records used are exactly the rows of the
\* upper-cased symbol with now - 10 * interval <= timestamp <= now, both ends
\* inclusive, in ascending timestamp order; they fall into at most 11
\* distinct buckets, those starting at floor(now) - j * interval for j in
\* 0..10, and the bucket dict has exactly the keys of these records.
C12_Window ==
    \A c \in Calls :
        Ran(c) =>
            /\ Fetched(c) = Window(c, calc[c].name)
            /\ Len(calc[c].records) = Cardinality(Fetched(c))
            /\ \A j \in 1..(Len(calc[c].records) - 1) :
                  calc[c].records[j].timestamp < calc[c].records[j + 1].timestamp
            /\ Cardinality(KeysOf(Fetched(c), interval_ms[c])) <= 11
            /\ KeysOf(Fetched(c), interval_ms[c]) \subseteq Candidates(c, 10)
            /\ DOMAIN calc[c].buckets = KeysOf(Fetched(c), interval_ms[c])

\* a row exactly at now - 10 * interval was used and opened the eleventh
\* candidate bucket, while an older row and a row of another symbol in the
\* same table were left out
C12_Witness ==
    \E c \in Calls :
        /\ Ran(c)
        /\ \E r \in Fetched(c) :
              /\ r.timestamp = current_time_ms[c] - 10 * interval_ms[c]
              /\ KeyOf(r.timestamp, interval_ms[c]) \notin Candidates(c, 9)
        /\ \E r \in db[TableOf(calc[c].name)] :
              r.symbol = BTC /\ r.timestamp < current_time_ms[c] - 10 * interval_ms[c]
        /\ \E r \in db[TableOf(calc[c].name)] :
              r.symbol = ETH /\ r.timestamp <= current_time_ms[c]
        /\ Cardinality(Fetched(c)) >= 3

\* a row exactly at now was used while a later row was left out
C12_WitnessUpper ==
    \E c \in Calls :
        /\ Ran(c)
        /\ \E r \in Fetched(c) : r.timestamp = current_time_ms[c]
        /\ \E r \in db[TableOf(calc[c].name)] :
              r.symbol = BTC /\ r.timestamp > current_time_ms[c]

LastValueNames == {OI, OI_DELTA, FUNDING, DEPTH, IMBALANCE}

\* the sample of a row that a last-value indicator keeps
SampleOf(name, r) ==
    CASE name \in {OI, OI_DELTA} -> r.open_interest
      [] name = FUNDING -> r.funding_rate
      [] name = DEPTH -> [bid |-> r.bid_depth_5, ask |-> r.ask_depth_5, spread |-> r.spread]
      [] name = IMBALANCE -> [bid |-> r.bid_depth_5, ask |-> r.ask_depth_5]

\* the row of a set sampled first
FirstRow(R) == CHOOSE r \in R : \A x \in R : x.timestamp >= r.timestamp

\* C13: for OI, OI_DELTA, FUNDING, DEPTH and IMBALANCE the value stored for
\* a bucket is the sample of the row with the greatest timestamp among the
\* window's rows mapping to that bucket, and the buckets are exactly those
\* some row of the window maps to (gaps are not filled).
C13_LastValue ==
    \A c \in Calls :
        (Ran(c) /\ calc[c].name \in LastValueNames) =>
            LET W == Window(c, calc[c].name)
                i == interval_ms[c]
            IN  /\ DOMAIN calc[c].buckets = KeysOf(W, i)
                /\ \A k \in KeysOf(W, i) :
                      calc[c].buckets[k] = SampleOf(calc[c].name, LastRow(InBucket(W, i, k)))

\* a bucket folded from three or more rows holds its latest sample, which is
\* not NULL and differs from the earliest one, and the bucket after the next
\* one exists while the next one does not
C13_Witness ==
    \E c \in Calls :
        /\ Ran(c) /\ calc[c].name \in LastValueNames
        /\ LET W == Window(c, calc[c].name)
               i == interval_ms[c]
           IN  \E k \in DOMAIN calc[c].buckets :
                  /\ Cardinality(InBucket(W, i, k)) >= 3
                  /\ calc[c].buckets[k] = SampleOf(calc[c].name, LastRow(InBucket(W, i, k)))
                  /\ calc[c].buckets[k] # SampleOf(calc[c].name, FirstRow(InBucket(W, i, k)))
                  /\ calc[c].buckets[k] # None
                  /\ k + i \notin DOMAIN calc[c].buckets
                  /\ k + 2 * i \in DOMAIN calc[c].buckets

\* a last-value bucket whose stored sample is entirely NULL
NullBucket(name, b) ==
    CASE name \in {OI, FUNDING} -> b = None
      [] name = DEPTH -> b.bid = None /\ b.ask = None /\ b.spread = None
      [] name = IMBALANCE -> b.bid = None /\ b.ask = None

\* the buckets that are not treated as absent
Present(name, buckets) == {k \in DOMAIN buckets : ~NullBucket(name, buckets[k])}

\* the null policy for the indicators in names: a NULL notional adds zero to
\* the sums of CVD and TAKER; a last-value indicator derives one value per
\* bucket that is not entirely NULL, in key order, its current value is that
\* of the latest such bucket, and it is None exactly when there is none
NullPolicy(names) ==
    \A c \in Calls :
        (Ran(c) /\ calc[c].name \in names) =>
            LET name == calc[c].name
                W == Window(c, name)
                i == interval_ms[c]
                B == calc[c].buckets
            IN  /\ name \in {CVD, TAKER} =>
                      \A k \in DOMAIN B :
                          /\ B[k].buy = SumBuy(InBucket(W, i, k))
                          /\ B[k].sell = SumSell(InBucket(W, i, k))
                /\ name \in {OI, FUNDING, DEPTH, IMBALANCE} =>
                      LET P == Present(name, B)
                      IN  /\ Len(calc[c].values) = Cardinality(P)
                          /\ \A k \in P :
                                Some(calc[c].values[Rank(P, k)]) = ValueOfBucket(name, B, k)
                          /\ (calc[c].ret = None) <=> (P = {})
                          /\ P # {} =>
                                Some(CurOf(name, calc[c].ret[1])) =
                                    ValueOfBucket(name, B, Latest(P))

\* C14 as claimed: the null policy is uniform: a NULL notional counts as
\* zero in CVD and TAKER, and in OI, FUNDING, DEPTH and IMBALANCE a bucket
\* whose value is NULL is skipped, contributing nothing to the history or to
\* the current value, the indicator being None when every bucket is skipped.
C14_Original == NullPolicy({CVD, TAKER, OI, FUNDING, DEPTH, IMBALANCE})

\* the policy as far as the code keeps it: CVD, TAKER, OI and FUNDING
C14_NotDepth == NullPolicy({CVD, TAKER, OI, FUNDING})

\* OI skipped a NULL bucket lying between two buckets with a sample
C14_WitnessSkip ==
    \E c \in Calls :
        /\ Ran(c) /\ calc[c].name \in {OI, FUNDING}
        /\ calc[c].ret # None
        /\ \E k \in DOMAIN calc[c].buckets :
              /\ calc[c].buckets[k] = None
              /\ \E a, b \in Present(calc[c].name, calc[c].buckets) : a < k /\ k < b

====
